---- MODULE Spec2Model ----
(***************************************************************************)
(* Model of streamlit_app.py: the wallet-activity pipeline                 *)
(*   fetch_transactions (activity_days loop), calculate_streaks,           *)
(*   calculate_chain_and_amount, generate_contribution_data and            *)
(*   analyze_wallet_activity, with the wall clock read by date.today().    *)
(*                                                                         *)
(* Dates are datetime.date values, represented by their day number since   *)
(* 1970-01-01 (a Thursday).  Timestamps are seconds since the epoch.       *)
(* amountUSD is counted in quarter dollars, a unit in which the float      *)
(* additions of the source are exact.                                      *)
(***************************************************************************)
EXTENDS Integers, Sequences, FiniteSets, TLC

\* ------------------------------------------------------------------ bounds
MaxDay == 9          \* dates of a directly supplied activity map: 0..MaxDay
MaxKeys == 3         \* keys of a directly supplied activity map (grid runs)
MaxCount == 2        \* counts of a directly supplied activity map
MaxTxDay == 1        \* UTC dates of fetched transfers: 0..MaxTxDay
MaxRecords == 4      \* transfers per fetch (function-level runs)
MaxRunRecords == 2   \* transfers per fetch (whole-script runs)
MaxChain == 2        \* receiving chain ids: 1..MaxChain
MaxAmount == 2       \* amountUSD in quarter dollars: 0..MaxAmount
MaxRuns == 2         \* script runs of one session
MaxTicks == 1        \* midnights crossed during one session

\* ------------------------------------------------------- program constants
SecondsPerDay == 86400   \* utcfromtimestamp(ts).date(): whole days since epoch
EpochWeekday == 3        \* date(1970,1,1).weekday(): Thursday, Monday = 0
DaysPerWeek == 7
None == -1               \* Python None for a local holding a date or a count

VARIABLES
  clock,            \* the local calendar date datetime.date.today() returns
  ticks,            \* midnights crossed so far
  transactions,     \* data.get("transfers", []) of the API response
  pc,               \* position of the running call
  caller,           \* "analyze": called from analyze_wallet_activity; "direct"
  run,              \* script runs started
  start_today,      \* per run, the date at which the run started
  outcome,          \* per run, what analyze_wallet_activity produced
  activity_days,    \* dict date -> count
  fi,               \* fetch_transactions: transfers consumed by the for loop
  dates, si,        \* calculate_streaks: sorted keys, dates consumed
  longest_streak, current_streak, max_streak, previous_date,
  today, active_streak,
  num_distinct_chain_ids, total_amount_usd,
  start_date, end_date, num_days, start_weekday, num_weeks,
  padded_data, heatmap_data,
  grid_ret          \* what generate_contribution_data returned

envVars    == <<clock, ticks, transactions, caller>>
runVars    == <<run, start_today, outcome>>
fetchVars  == <<activity_days, fi>>
streakVars == <<dates, si, longest_streak, current_streak, max_streak,
                previous_date, today, active_streak>>
metricVars == <<num_distinct_chain_ids, total_amount_usd>>
gridVars   == <<start_date, end_date, num_days, start_weekday, num_weeks,
                padded_data, heatmap_data, grid_ret>>
vars == <<envVars, runVars, pc, fetchVars, streakVars, metricVars, gridVars>>

\* ----------------------------------------------------------------- helpers
EmptyDict == [d \in {} |-> 0]
EmptyArray == [i \in {} |-> 0]

Min(S) == CHOOSE x \in S : \A y \in S : x <= y
Max(S) == CHOOSE x \in S : \A y \in S : y <= x

\* Variant: the maximum is never raised
PyMax_keep(a, b) == a

\* max(a, b) of Python
PyMax(a, b) == IF b > a THEN b ELSE a

\* dict.get(key, default)
DictGet(dict, key, default) == IF key \in DOMAIN dict THEN dict[key] ELSE default

RECURSIVE sorted(_)
\* sorted(iterable): ascending list
sorted(S) == IF S = {} THEN <<>>
             ELSE LET m == Min(S) IN <<m>> \o sorted(S \ {m})

\* Variant: the local date of a zone one hour east of UTC (fromtimestamp)
utcfromtimestamp_date_local(timestamp) == (timestamp + 3600) \div SecondsPerDay

\* datetime.datetime.utcfromtimestamp(timestamp).date()
utcfromtimestamp_date(timestamp) == timestamp \div SecondsPerDay

\* Variant: date.isoweekday(), Monday = 1 ... Sunday = 7
weekday_iso(date) == ((date + EpochWeekday) % DaysPerWeek) + 1

\* date.weekday(): Monday = 0 ... Sunday = 6
weekday(date) == (date + EpochWeekday) % DaysPerWeek

\* numpy arrays are functions over 0..n-1
ArrayLen(a) == Cardinality(DOMAIN a)
np_pad(a, before, after) ==
  LET n == ArrayLen(a) IN
  [i \in 0..(before + n + after - 1) |->
     IF i < before THEN 0
     ELSE IF i < before + n THEN a[i - before]
     ELSE 0]
\* a.reshape((rows, cols)), C order
np_reshape(a, rows, cols) ==
  [r \in 0..(rows - 1) |-> [c \in 0..(cols - 1) |-> a[r * cols + c]]]
\* m.T of a rows x cols matrix
np_transpose(m, rows, cols) ==
  [c \in 0..(cols - 1) |-> [r \in 0..(rows - 1) |-> m[r][c]]]

RECURSIVE SumOver(_, _)
\* sum(f[x] for x in S)
SumOver(f, S) == IF S = {} THEN 0
                 ELSE LET x == CHOOSE y \in S : TRUE
                      IN f[x] + SumOver(f, S \ {x})

\* ------------------------------------------------------------------ inputs
Timestamps == {d * SecondsPerDay + s : d \in 0..MaxTxDay,
                                       s \in {0, SecondsPerDay - 1}}
Transfers == [timestamp : Timestamps, chainId : 1..MaxChain,
              amountUSD : 0..MaxAmount]
\* fetch_transactions reads the timestamp of a transfer only
TransfersByTime == {t \in Transfers : t.chainId = 1 /\ t.amountUSD = 0}
\* calculate_chain_and_amount reads the chain id and the amount only
TransfersByChainAmount == {t \in Transfers : t.timestamp = 0}
SeqsUpTo(S, n) == UNION {[1..k -> S] : k \in 0..n}

\* Transfer dates are UTC dates of past instants and date.today() is the
\* local date, so a key is at most one day after the clock.
ClockOK(keys, c) == \A d \in keys : d <= c + 1

LocalsInit ==
  /\ activity_days = EmptyDict /\ fi = 0
  /\ dates = <<>> /\ si = 0
  /\ longest_streak = None /\ current_streak = None /\ max_streak = None
  /\ previous_date = None /\ today = None /\ active_streak = None
  /\ num_distinct_chain_ids = None /\ total_amount_usd = None
  /\ start_date = None /\ end_date = None /\ num_days = None
  /\ start_weekday = None /\ num_weeks = None
  /\ padded_data = EmptyArray /\ heatmap_data = EmptyArray
  /\ grid_ret = [type |-> "none"]

\* A new call frame: no local is bound yet
LocalsReset ==
  /\ activity_days' = EmptyDict /\ fi' = 0
  /\ dates' = <<>> /\ si' = 0
  /\ longest_streak' = None /\ current_streak' = None /\ max_streak' = None
  /\ previous_date' = None /\ today' = None /\ active_streak' = None
  /\ num_distinct_chain_ids' = None /\ total_amount_usd' = None
  /\ start_date' = None /\ end_date' = None /\ num_days' = None
  /\ start_weekday' = None /\ num_weeks' = None
  /\ padded_data' = EmptyArray /\ heatmap_data' = EmptyArray
  /\ grid_ret' = [type |-> "none"]

RunsInit ==
  /\ run = 0 /\ ticks = 0
  /\ start_today = [r \in 1..MaxRuns |-> None]
  /\ outcome = [r \in 1..MaxRuns |-> [kind |-> "none"]]

\* Where a returning function continues: in analyze_wallet_activity, or nowhere
\* when the function was called on its own.
Ret(next) == IF caller = "analyze" THEN next ELSE "done"

\* dict[key] = value
DictSet(dict, key, value) ==
  [k \in DOMAIN dict \cup {key} |-> IF k = key THEN value ELSE dict[k]]

\* ------------------------------------------------------- the wall clock
\* Midnight passes: date.today() returns the next day from now on.
Tick ==
  /\ ticks < MaxTicks
  /\ pc # "done"
  /\ clock' = clock + 1
  /\ ticks' = ticks + 1
  /\ UNCHANGED <<transactions, caller, runVars, pc, fetchVars, streakVars,
                 metricVars, gridVars>>

\* ---------------------------------------------------- fetch_transactions
FetchBegin ==
  /\ pc = "fetch"
  /\ activity_days' = EmptyDict
  /\ fi' = 0
  /\ pc' = "fetch_loop"
  /\ UNCHANGED <<envVars, runVars, streakVars, metricVars, gridVars>>

FetchStep ==
  /\ pc = "fetch_loop"
  /\ fi < Len(transactions)
  /\ LET tx == transactions[fi + 1]
         date == utcfromtimestamp_date(tx.timestamp)
     IN activity_days' = DictSet(activity_days, date,
                                 DictGet(activity_days, date, 0) + 1)
  /\ fi' = fi + 1
  /\ UNCHANGED <<envVars, runVars, pc, streakVars, metricVars, gridVars>>

FetchReturn ==
  /\ pc = "fetch_loop"
  /\ fi = Len(transactions)
  /\ pc' = Ret("streaks")
  /\ UNCHANGED <<envVars, runVars, fetchVars, streakVars, metricVars, gridVars>>

\* ----------------------------------------------------- calculate_streaks
StreakBegin ==
  /\ pc = "streaks"
  /\ dates' = sorted(DOMAIN activity_days)
  /\ longest_streak' = 0
  /\ current_streak' = 0
  /\ max_streak' = 0
  /\ previous_date' = None
  /\ si' = 0
  /\ pc' = "streaks_loop"
  /\ UNCHANGED <<envVars, runVars, fetchVars, today, active_streak,
                 metricVars, gridVars>>

\* Variant: any later date continues the streak (gap test ">= 1")
StreakStep_anygap ==
  /\ pc = "streaks_loop"
  /\ si < Len(dates)
  /\ LET date == dates[si + 1]
         cs == IF previous_date # None /\ date - previous_date >= 1
               THEN current_streak + 1
               ELSE 1
     IN /\ current_streak' = cs
        /\ max_streak' = PyMax(max_streak, cs)
        /\ previous_date' = date
  /\ si' = si + 1
  /\ UNCHANGED <<envVars, runVars, pc, fetchVars, dates, longest_streak, today,
                 active_streak, metricVars, gridVars>>

\* One iteration of "for date in dates".  A date object is always truthy, so
\* "previous_date and ..." tests previous_date against None only.
StreakStep ==
  /\ pc = "streaks_loop"
  /\ si < Len(dates)
  /\ LET date == dates[si + 1]
         cs == IF previous_date # None /\ date - previous_date = 1
               THEN current_streak + 1
               ELSE 1
     IN /\ current_streak' = cs
        /\ max_streak' = PyMax(max_streak, cs)
        /\ previous_date' = date
  /\ si' = si + 1
  /\ UNCHANGED <<envVars, runVars, pc, fetchVars, dates, longest_streak, today,
                 active_streak, metricVars, gridVars>>

StreakReturn ==
  /\ pc = "streaks_loop"
  /\ si = Len(dates)
  /\ today' = clock
  /\ active_streak' = IF Len(dates) > 0 /\ clock = dates[Len(dates)]
                      THEN current_streak
                      ELSE 0
  /\ pc' = Ret("metrics")
  /\ UNCHANGED <<envVars, runVars, fetchVars, dates, si, longest_streak,
                 current_streak, max_streak, previous_date, metricVars, gridVars>>

\* Variant: a list instead of a set of chain ids, duplicates counted
CalculateChainAndAmount_list ==
  /\ pc = "metrics"
  /\ LET amount == [i \in 1..Len(transactions) |-> transactions[i].amountUSD]
     IN /\ num_distinct_chain_ids' = Len(transactions)
        /\ total_amount_usd' = SumOver(amount, 1..Len(transactions))
  /\ pc' = Ret("grid")
  /\ UNCHANGED <<envVars, runVars, fetchVars, streakVars, gridVars>>

\* -------------------------------------------- calculate_chain_and_amount
CalculateChainAndAmount ==
  /\ pc = "metrics"
  /\ LET receiving_chain_ids ==
           {transactions[i].chainId : i \in 1..Len(transactions)}
         amount == [i \in 1..Len(transactions) |-> transactions[i].amountUSD]
     IN /\ num_distinct_chain_ids' = Cardinality(receiving_chain_ids)
        /\ total_amount_usd' = SumOver(amount, 1..Len(transactions))
  /\ pc' = Ret("grid")
  /\ UNCHANGED <<envVars, runVars, fetchVars, streakVars, gridVars>>

\* -------------------------------------------- generate_contribution_data
\* "if not activity_days: return np.array([])": an empty array is returned.
GridEmpty ==
  /\ pc = "grid"
  /\ DOMAIN activity_days = {}
  /\ grid_ret' = [type |-> "ndarray", size |-> 0]
  /\ pc' = Ret("unpack")
  /\ UNCHANGED <<envVars, runVars, fetchVars, streakVars, metricVars,
                 start_date, end_date, num_days, start_weekday, num_weeks,
                 padded_data, heatmap_data>>

\* num_weeks of line 95
NumWeeks(n, wd) == (n + wd) \div DaysPerWeek + 1

\* Variant: a day is marked active instead of counted
DailyArray_flag(dict, start, n) ==
  [i \in 0..(n - 1) |-> IF start + i \in DOMAIN dict THEN 1 ELSE 0]

\* The daily activity array of lines 87-91
DailyArray(dict, start, n) ==
  [i \in 0..(n - 1) |-> DictGet(dict, start + i, 0)]

\* num_days >= 0 in every reachable state: the earliest key is at most one
\* day after the clock.
GridBuild ==
  /\ pc = "grid"
  /\ DOMAIN activity_days # {}
  /\ LET ds == sorted(DOMAIN activity_days)
         sd == Min({ds[i] : i \in 1..Len(ds)})
         ed == clock
         n == (ed - sd) + 1
         daily == DailyArray(activity_days, sd, n)
         wd == weekday(sd)
         nw == NumWeeks(n, wd)
         padded == np_pad(daily, wd, nw * DaysPerWeek - (n + wd))
         grid == np_transpose(np_reshape(padded, nw, DaysPerWeek),
                              nw, DaysPerWeek)
     IN /\ start_date' = sd
        /\ end_date' = ed
        /\ num_days' = n
        /\ start_weekday' = wd
        /\ num_weeks' = nw
        /\ padded_data' = padded
        /\ heatmap_data' = grid
        /\ grid_ret' = [type |-> "tuple", heatmap_data |-> grid,
                        start_date |-> sd, end_date |-> ed]
  /\ pc' = Ret("unpack")
  /\ UNCHANGED <<envVars, runVars, fetchVars, streakVars, metricVars>>

\* ----------------------------------------------- analyze_wallet_activity
\* The script body calls analyze_wallet_activity once per script run; every
\* call starts with fresh locals.
AnalyzeStart ==
  /\ pc \in {"idle", "done"}
  /\ caller = "analyze"
  /\ run < MaxRuns
  /\ run' = run + 1
  /\ start_today' = [start_today EXCEPT ![run + 1] = clock]
  /\ pc' = "fetch"
  /\ LocalsReset
  /\ UNCHANGED <<envVars, outcome>>

\* "heatmap_data, start_date, end_date = ..." of a 3-tuple, then the dict
AnalyzeReturn ==
  /\ pc = "unpack"
  /\ grid_ret.type = "tuple"
  /\ outcome' = [outcome EXCEPT ![run] =
       [kind |-> "result",
        num_distinct_chain_ids |-> num_distinct_chain_ids,
        total_amount_usd |-> total_amount_usd,
        active_streak |-> active_streak,
        longest_streak |-> max_streak,
        heatmap_data |-> grid_ret.heatmap_data,
        start_date |-> grid_ret.start_date,
        end_date |-> grid_ret.end_date]]
  /\ pc' = "done"
  /\ UNCHANGED <<envVars, run, start_today, fetchVars, streakVars, metricVars,
                 gridVars>>

\* Unpacking the empty array into three names raises ValueError.
AnalyzeRaise ==
  /\ pc = "unpack"
  /\ grid_ret.type = "ndarray"
  /\ grid_ret.size # 3
  /\ outcome' = [outcome EXCEPT ![run] = [kind |-> "raise", error |-> "ValueError"]]
  /\ pc' = "done"
  /\ UNCHANGED <<envVars, run, start_today, fetchVars, streakVars, metricVars,
                 gridVars>>

\* ---------------------------------------------------------- specifications
TxDates(txs) == {utcfromtimestamp_date(txs[i].timestamp) : i \in 1..Len(txs)}

\* The whole script: analyze_wallet_activity, run up to MaxRuns times
Init ==
  /\ transactions \in SeqsUpTo(Transfers, MaxRunRecords)
  /\ clock \in 0..(MaxTxDay + 1)
  /\ ClockOK(TxDates(transactions), clock)
  /\ pc = "idle" /\ caller = "analyze"
  /\ RunsInit /\ LocalsInit

Next ==
  \/ Tick
  \/ AnalyzeStart
  \/ FetchBegin \/ FetchStep \/ FetchReturn
  \/ StreakBegin \/ StreakStep \/ StreakReturn
  \/ CalculateChainAndAmount
  \/ GridEmpty \/ GridBuild
  \/ AnalyzeReturn \/ AnalyzeRaise

Spec == Init /\ [][Next]_vars

\* fetch_transactions on its own
InitFetch ==
  /\ transactions \in SeqsUpTo(TransfersByTime, MaxRecords)
  /\ clock \in 0..(MaxTxDay + 1)
  /\ ClockOK(TxDates(transactions), clock)
  /\ pc = "fetch" /\ caller = "direct"
  /\ RunsInit /\ LocalsInit

NextFetch == FetchBegin \/ FetchStep \/ FetchReturn

SpecFetch == InitFetch /\ [][NextFetch]_vars

\* calculate_chain_and_amount on its own
InitMetrics ==
  /\ transactions \in SeqsUpTo(TransfersByChainAmount, MaxRecords)
  /\ clock \in 0..(MaxTxDay + 1)
  /\ ClockOK(TxDates(transactions), clock)
  /\ pc = "metrics" /\ caller = "direct"
  /\ RunsInit /\ LocalsInit

NextMetrics == CalculateChainAndAmount

SpecMetrics == InitMetrics /\ [][NextMetrics]_vars

\* calculate_streaks on its own, over every set of active dates
InitStreaks ==
  /\ transactions = <<>>
  /\ clock \in 0..(MaxDay + 1)
  /\ pc = "streaks" /\ caller = "direct"
  /\ RunsInit
  /\ \E S \in SUBSET (0..MaxDay) :
       /\ ClockOK(S, clock)
       /\ activity_days = [d \in S |-> 1]
  /\ fi = 0
  /\ dates = <<>> /\ si = 0
  /\ longest_streak = None /\ current_streak = None /\ max_streak = None
  /\ previous_date = None /\ today = None /\ active_streak = None
  /\ num_distinct_chain_ids = None /\ total_amount_usd = None
  /\ start_date = None /\ end_date = None /\ num_days = None
  /\ start_weekday = None /\ num_weeks = None
  /\ padded_data = EmptyArray /\ heatmap_data = EmptyArray
  /\ grid_ret = [type |-> "none"]

NextStreaks == StreakBegin \/ StreakStep \/ StreakReturn

SpecStreaks == InitStreaks /\ [][NextStreaks]_vars

\* generate_contribution_data on its own, over activity maps of few keys
InitGrid ==
  /\ transactions = <<>>
  /\ clock \in 0..(MaxDay + 1)
  /\ pc = "grid" /\ caller = "direct"
  /\ RunsInit
  /\ \E S \in {T \in SUBSET (0..MaxDay) : Cardinality(T) <= MaxKeys} :
       /\ ClockOK(S, clock)
       /\ activity_days \in [S -> 1..MaxCount]
  /\ fi = 0
  /\ dates = <<>> /\ si = 0
  /\ longest_streak = None /\ current_streak = None /\ max_streak = None
  /\ previous_date = None /\ today = None /\ active_streak = None
  /\ num_distinct_chain_ids = None /\ total_amount_usd = None
  /\ start_date = None /\ end_date = None /\ num_days = None
  /\ start_weekday = None /\ num_weeks = None
  /\ padded_data = EmptyArray /\ heatmap_data = EmptyArray
  /\ grid_ret = [type |-> "none"]

NextGrid == GridEmpty \/ GridBuild

SpecGrid == InitGrid /\ [][NextGrid]_vars

\* ================================================================== claims
\* ------------------------------------------------ reference definitions
\* 1970-01-01 was a Thursday: weekday (Monday = 0) of epoch days 0, 1, 2, ...
Calendar == <<3, 4, 5, 6, 0, 1, 2>>
RefWeekday(d) == Calendar[(d % 7) + 1]

\* S contains every date of a..b
IsRun(S, a, b) == \A d \in a..b : d \in S
\* length of the longest run of consecutive dates of S, 0 for the empty set
RefLongest(S) ==
  Max({0} \cup {b - a + 1 : <<a, b>> \in {p \in S \X S : p[1] <= p[2] /\ IsRun(S, p[1], p[2])}})
\* length of the maximal run of S that ends at e
RefRunEndingAt(S, e) == Max({e - a + 1 : a \in {x \in S : x <= e /\ IsRun(S, x, e)}})
RefCurrent(S, t) == IF S # {} /\ Max(S) = t THEN RefRunEndingAt(S, Max(S)) ELSE 0

\* timestamp ts lies within UTC day d
OnDate(ts, d) == d * 86400 <= ts /\ ts < (d + 1) * 86400

Keys == DOMAIN activity_days
MapSum == SumOver(activity_days, Keys)
GridReturned == grid_ret.type = "tuple"
Rows == DOMAIN heatmap_data
Cols == DOMAIN heatmap_data[0]
GridSum == SumOver([r \in Rows |-> SumOver(heatmap_data[r], DOMAIN heatmap_data[r])], Rows)
LeadingPad == RefWeekday(start_date)
TotalDays == end_date - start_date + 1

\* ---------------------------------------------------------------------- C1
\* C1: whenever generate_contribution_data returns a grid for today >=
\* startDate, the grid has 7 rows and the least number of columns that holds
\* leadingPad + totalDays cells: columns*7 >= leadingPad + totalDays and
\* columns*7 - (leadingPad + totalDays) < 7.
C1_MinimalPadding ==
  (GridReturned /\ end_date >= start_date) =>
     /\ Rows = 0..6
     /\ Cardinality(Cols) * 7 >= LeadingPad + TotalDays
     /\ Cardinality(Cols) * 7 - (LeadingPad + TotalDays) < 7

\* ---------------------------------------------------------------------- C2
\* C2 as stated: whenever a grid is returned for today >= the earliest key,
\* the sum of the grid's cells equals the sum of the map's counts.
C2_RoundTrip ==
  (GridReturned /\ end_date >= start_date) => GridSum = MapSum

\* C2 as amended: whenever a grid is returned for today >= the latest key of
\* the map, the sum of the grid's cells equals the sum of the map's counts.
C2_RoundTripUpToToday ==
  (GridReturned /\ \A d \in Keys : d <= end_date) => GridSum = MapSum

C2_Witness ==
  /\ GridReturned
  /\ \A d \in Keys : d <= end_date
  /\ Cardinality(Keys) >= 2
  /\ \E d \in Keys : activity_days[d] = 2
  /\ Max(Keys) - Min(Keys) >= 7
  /\ GridSum >= 3

\* ---------------------------------------------------------------------- C3
\* C3: with an empty activity map generate_contribution_data fails with
\* EmptyInputError instead of returning a value, and analyze_wallet_activity
\* ends with that same error.
C3_EmptyInputError ==
  /\ (Keys = {} /\ grid_ret.type # "none") =>
        (grid_ret.type = "raise" /\ grid_ret.error = "EmptyInputError")
  /\ \A r \in 1..MaxRuns :
        (outcome[r].kind # "none" /\ transactions = <<>>) =>
           outcome[r] = [kind |-> "raise", error |-> "EmptyInputError"]

\* ---------------------------------------------------------------------- C8
\* C8: in a grid returned for today >= startDate, cell (r, c) holds element
\* 7*c + r of the padded daily sequence; every date d of [startDate, today]
\* sits at row weekday(d), column (leadingPad + (d - startDate)) div 7, the
\* only cell of that index, and holds map.get(d, 0); every other cell holds 0.
C8_Placement ==
  (GridReturned /\ end_date >= start_date) =>
     /\ Rows = 0..6
     /\ \A r \in Rows : DOMAIN heatmap_data[r] = Cols
     /\ \A r \in Rows : \A c \in Cols :
          LET k == 7 * c + r IN
          /\ heatmap_data[r][c] = padded_data[k]
          /\ heatmap_data[r][c] =
               IF LeadingPad <= k /\ k < LeadingPad + TotalDays
               THEN DictGet(activity_days, start_date + (k - LeadingPad), 0)
               ELSE 0
     /\ \A d \in start_date..end_date :
          LET r == RefWeekday(d)
              c == (LeadingPad + (d - start_date)) \div 7
          IN /\ c \in Cols
             /\ 7 * c + r = LeadingPad + (d - start_date)
             /\ heatmap_data[r][c] = DictGet(activity_days, d, 0)

C8_Witness ==
  /\ GridReturned /\ end_date >= start_date
  /\ LeadingPad > 0
  /\ Cardinality(Cols) >= 2
  /\ \E d \in Keys : /\ d > start_date /\ d <= end_date
                     /\ (LeadingPad + (d - start_date)) \div 7 = 1
                     /\ activity_days[d] = 2
                     /\ heatmap_data[RefWeekday(d)][1] = 2
  /\ end_date > Max(Keys)

\* ---------------------------------------------------------------------- C4
\* C4: calculate_streaks returns, as longest streak, the length of the longest
\* run of consecutive dates of the map (0 for the empty map) and, as current
\* streak, the length of the run ending at the latest date when that date is
\* today, otherwise 0.
C4_StreaksMatchReference ==
  (pc = "done" /\ active_streak # None) =>
     /\ max_streak = RefLongest(Keys)
     /\ active_streak = RefCurrent(Keys, today)

\* dates d, d+1, d+9 with today = d+9 give (1, 2)
C4_Witness ==
  /\ pc = "done"
  /\ Keys = {0, 1, 9}
  /\ today = 9
  /\ active_streak = 1
  /\ max_streak = 2

\* ---------------------------------------------------------------------- C5
\* C5: during the walk over the sorted dates the running counter never exceeds
\* the tracked maximum, the maximum is at least 1 once a date was walked, and
\* the returned pair has currentStreak > 0 => currentStreak <= longestStreak
\* and longestStreak >= 1 for a non-empty map.
C5_StreakOrdering ==
  /\ pc = "streaks_loop" =>
       /\ current_streak <= max_streak
       /\ si >= 1 => max_streak >= 1
  /\ (pc = "done" /\ active_streak # None) =>
       /\ active_streak > 0 => active_streak <= max_streak
       /\ Keys # {} => max_streak >= 1

\* a returned current streak of 2 or more that is below the longest streak
C5_Witness ==
  /\ pc = "done"
  /\ active_streak >= 2
  /\ active_streak < max_streak

\* ---------------------------------------------------------------------- C6
\* C6: calculate_chain_and_amount returns the number of chain ids that occur
\* in the records and the sum of their amounts; for a non-empty sequence of
\* records with non-negative amounts the count is between 1 and the number of
\* records and the total is >= 0; for the empty sequence both are 0.
C6_Metrics ==
  (pc = "done" /\ num_distinct_chain_ids # None) =>
     LET n == Len(transactions)
         occurring == {c \in 1..MaxChain : \E i \in 1..n : transactions[i].chainId = c}
         timesOf == [a \in 0..MaxAmount |->
                       a * Cardinality({i \in 1..n : transactions[i].amountUSD = a})]
     IN /\ num_distinct_chain_ids = Cardinality(occurring)
        /\ total_amount_usd = SumOver(timesOf, 0..MaxAmount)
        /\ n = 0 => (num_distinct_chain_ids = 0 /\ total_amount_usd = 0)
        /\ n > 0 => /\ num_distinct_chain_ids >= 1
                    /\ num_distinct_chain_ids <= n
                    /\ total_amount_usd >= 0

\* three records with chain ids 1, 1, 2 and a positive total
C6_Witness ==
  /\ pc = "done"
  /\ Len(transactions) = 3
  /\ transactions[1].amountUSD # transactions[2].amountUSD
  /\ transactions[1].chainId = 1
  /\ transactions[2].chainId = 1
  /\ transactions[3].chainId = 2
  /\ num_distinct_chain_ids = 2
  /\ total_amount_usd >= 2

\* ---------------------------------------------------------------------- C9
\* C9: after the activity_days loop consumed any prefix of the records, the
\* keys of the map are exactly the UTC dates of the consumed records, each
\* count is the number of consumed records on that date (hence >= 1) and the
\* counts add up to the number of consumed records; no record gives no key.
C9_ActivityMap ==
  pc \in {"fetch_loop", "done"} =>
     LET consumed == 1..fi
         on(d) == {j \in consumed : OnDate(transactions[j].timestamp, d)}
     IN /\ Keys = {d \in 0..(MaxTxDay + 1) : on(d) # {}}
        /\ \A d \in Keys : /\ activity_days[d] = Cardinality(on(d))
                           /\ activity_days[d] >= 1
        /\ MapSum = fi
        /\ Len(transactions) = 0 => activity_days = EmptyDict

\* a prefix of two records on one date at different times, a third to come
C9_Witness ==
  /\ pc = "fetch_loop"
  /\ fi = 2
  /\ Len(transactions) >= 3
  /\ transactions[1].timestamp # transactions[2].timestamp
  /\ \E d \in Keys : activity_days[d] = 2

\* ---------------------------------------------------------------------- C7
\* C7: two runs of analyze_wallet_activity over the same records that start on
\* the same day end with the same outcome.
C7_Deterministic ==
  \A r1 \in 1..MaxRuns : \A r2 \in 1..MaxRuns :
     (/\ outcome[r1].kind # "none"
      /\ outcome[r2].kind # "none"
      /\ start_today[r1] = start_today[r2])
        => outcome[r1] = outcome[r2]

\* --------------------------------------------------------------------- C10
\* C10: when analyze_wallet_activity returns a result, the date that
\* calculate_streaks compared with the latest active date is the end_date of
\* the grid, and a positive active streak means the grid cell of end_date
\* holds a count >= 1.
C10_SingleToday ==
  (pc = "done" /\ run >= 1 /\ outcome[run].kind = "result") =>
     /\ today = outcome[run].end_date
     /\ active_streak > 0 =>
          outcome[run].heatmap_data[RefWeekday(end_date)]
             [(RefWeekday(start_date) + (end_date - start_date)) \div 7] >= 1
====
